---- MODULE Spec2Model ----
(***************************************************************************)
(* Model of the multi-subject subscriber                                   *)
(* (minitoolstream_connector/usecase/subscriber/subscriber.go).            *)
(*                                                                         *)
(* The coordinator (MultiSubject) owns the handler registry, one shared    *)
(* cancellation context, a WaitGroup and the egress client.  Start spawns  *)
(* one goroutine per registered subject (subscribeToSubject); each of      *)
(* them opens a notification stream, starts a relay goroutine that feeds   *)
(* a buffered channel, and runs the dispatch loop that calls               *)
(* processNotification for every notification taken from the channel.      *)
(*                                                                         *)
(* The egress client, its streams and the message handlers are the         *)
(* environment: every call on them returns any outcome its signature       *)
(* allows (a value, io.EOF, an error), or does not return yet.             *)
(***************************************************************************)
EXTENDS Naturals, Sequences, FiniteSets, TLC

\* ------------------------------------------------------------------ bounds

\* Notifications the notification streams yield in total.
MaxNotif == 2
\* Messages the message streams yield in total.
MaxMsgs == 2
\* Stop calls in total.
MaxStops == 2
\* Capacity of a worker's notification channel (subscriber.go:137 makes it
\* 100; the model scales it down so that a full channel is reachable).
QueueCap == 1

SubjectOrder == <<"a", "b">>
Subjects == {SubjectOrder[i] : i \in 1..Len(SubjectOrder)}
\* Worker goroutines the model lets Start spawn in total, over all Start
\* calls: one Start with every subject registered, or two with one subject.
MaxWorkers == Len(SubjectOrder)
Handlers == {"h1", "h2"}
Callers == {"c1", "c2"}
NoHandler == "none"
\* s.durableName, and s.batchSize as New sets it when the config names none
DurableName == "durable"
BatchSize == 10
W == 1..MaxWorkers
\* message preparers, and how many one PublishAll call is given at most
Preparers == {"p1", "p2"}
MaxPreparers == 2
T == 1..MaxPreparers
NoResult == [kind |-> "none", failed |-> 0]

VARIABLES
    handlers,      \* s.handlers: subject -> handler, NoHandler when absent
    cancelled,     \* s.ctx is done (s.cancel was called)
    wgCount,       \* s.wg counter
    closeCount,    \* calls of s.client.Close so far
    cpc,           \* where each calling goroutine is inside Stop / Wait
    joinSet,       \* per Stop caller: the workers that existed when it called Stop
    startResult,   \* what the latest Start call returned
    lateSpawn,     \* some Start spawned workers after s.cancel had been called
    stopsBegun,    \* Stop calls made so far
    stopsReturned, \* Stop calls that have returned
    wsubject,      \* worker: the subject argument of subscribeToSubject
    whandler,      \* worker: the handler argument of subscribeToSubject
    pc,            \* worker: position of the subscribeToSubject goroutine
    rpc,           \* worker: position of the notification receiver goroutine
    queue,         \* worker: contents of notificationChan
    closed,        \* worker: notificationChan has been closed
    held,          \* worker: notification the receiver goroutine is sending
    cur,           \* worker: notification processNotification is working on
    subCalls,      \* worker: subjects of the Subscribe calls it has issued
    pulled,        \* notifications the streams have yielded so far (all workers)
    yielded,       \* messages the message streams have yielded so far (all workers)
    msgs,          \* worker: messageCount of the running processNotification
    hErr,          \* worker: a handler call of the running cycle returned an error
    res,           \* worker: what processNotification has just returned
    hlog,          \* worker: the messages of the running cycle given to the handler
    lastSeq,       \* worker: sequence of the notification it took last
    fetchCalls,    \* worker: configs of the Fetch calls of the running cycle
    preparers,     \* p.preparers: the registered message preparers
    ppc,           \* where the PublishAll call is
    pubGiven,      \* PublishAll: the preparers argument
    pubList,       \* PublishAll: the preparers it publishes
    tpc,           \* PublishAll: position of each publishOne goroutine
    prepCalls,     \* PublishAll: Prepare calls made on each entry of pubList
    clientCalls,   \* PublishAll: p.client.Publish calls made
    errChan,       \* PublishAll: contents of errChan
    pubResult,     \* what the latest PublishAll returned
    perr,          \* PublishAll: the error each publishOne returned, "nil" for none
    rhRes,         \* PublishAll: what p.resultHandler.Handle returned to each publishOne
    muReaders,     \* s.mu: the callers holding the read lock
    muWriter,      \* s.mu: the caller holding the write lock, "none" when free
    regTodo,       \* caller: the entries its registration call has still to write
    startSeen,     \* caller: the subjects the range loop of its Start call has visited
    regAtLock,     \* caller: s.handlers as it was when its Start call got the read lock
    hcalled        \* worker: the handler whose Handle method it called last

coordVars == <<handlers, cancelled, wgCount, closeCount>>
callerVars == <<cpc, joinSet, startResult, lateSpawn, stopsBegun, stopsReturned>>
workerVars == <<wsubject, whandler, pc, rpc, queue, closed, held, cur, subCalls,
                pulled, yielded, msgs, hErr, res>>
obsVars == <<hlog, lastSeq, fetchCalls, hcalled>>
pubVars == <<preparers, ppc, pubGiven, pubList, tpc, prepCalls, clientCalls, errChan,
             pubResult, perr, rhRes>>
lockVars == <<muReaders, muWriter, regTodo, startSeen, regAtLock>>
vars == <<coordVars, callerVars, workerVars, obsVars, pubVars, lockVars>>

NoNotif == [subject |-> "none", sequence |-> 0]

Registered == {s \in Subjects : handlers[s] # NoHandler}
Spawned == {w \in W : pc[w] # "none"}
Live == {w \in Spawned : pc[w] # "exited"}

\* ------------------------------------------------------------------ New

Init ==
    /\ handlers = [s \in Subjects |-> NoHandler]
    /\ cancelled = FALSE
    /\ wgCount = 0
    /\ closeCount = 0
    /\ cpc = [c \in Callers |-> "idle"]
    /\ joinSet = [c \in Callers |-> {}]
    /\ startResult = "none"
    /\ lateSpawn = FALSE
    /\ stopsBegun = 0
    /\ stopsReturned = 0
    /\ wsubject = [w \in W |-> "none"]
    /\ whandler = [w \in W |-> NoHandler]
    /\ pc = [w \in W |-> "none"]
    /\ rpc = [w \in W |-> "none"]
    /\ queue = [w \in W |-> <<>>]
    /\ closed = [w \in W |-> FALSE]
    /\ held = [w \in W |-> NoNotif]
    /\ cur = [w \in W |-> NoNotif]
    /\ subCalls = [w \in W |-> <<>>]
    /\ pulled = 0
    /\ yielded = 0
    /\ msgs = [w \in W |-> 0]
    /\ hErr = [w \in W |-> FALSE]
    /\ res = [w \in W |-> "none"]
    /\ hlog = [w \in W |-> <<>>]
    /\ lastSeq = [w \in W |-> 0]
    /\ fetchCalls = [w \in W |-> <<>>]
    /\ preparers = <<>>
    /\ ppc = "idle"
    /\ pubGiven = <<>>
    /\ pubList = <<>>
    /\ tpc = [i \in T |-> "none"]
    /\ prepCalls = [i \in T |-> 0]
    /\ clientCalls = 0
    /\ errChan = <<>>
    /\ pubResult = NoResult
    /\ perr = [i \in T |-> "nil"]
    /\ rhRes = [i \in T |-> "none"]
    /\ muReaders = {}
    /\ muWriter = "none"
    /\ regTodo = [c \in Callers |-> <<>>]
    /\ startSeen = [c \in Callers |-> {}]
    /\ regAtLock = [c \in Callers |-> [s \in Subjects |-> NoHandler]]
    /\ hcalled = [w \in W |-> NoHandler]

\* ------------------------------------------------------------------ registry

\* Faulty variant of SetHandlers: a subject that has a handler keeps it.
SetHandlersKeepsFirst(reg, m) ==
    [s \in Subjects |-> IF s \in DOMAIN m /\ reg[s] = NoHandler THEN m[s] ELSE reg[s]]

\* s.handlers[subject] = handler for every entry of the given map.
SetHandlers(reg, m) ==
    [s \in Subjects |-> IF s \in DOMAIN m THEN m[s] ELSE reg[s]]

\* Faulty variant of RegisterHandler: once workers were started, a handler for a
\* new subject gets a worker at once.
RegisterHandlerSpawns(c, subject, handler) ==
    /\ cpc[c] = "idle"
    /\ handlers' = SetHandlers(handlers, (subject :> handler))
    /\ LET n == Cardinality(Spawned)
       IN  IF n > 0 /\ n < MaxWorkers /\ handlers[subject] = NoHandler
           THEN /\ wgCount' = wgCount + 1
                /\ wsubject' = [wsubject EXCEPT ![n + 1] = subject]
                /\ whandler' = [whandler EXCEPT ![n + 1] = handler]
                /\ pc' = [pc EXCEPT ![n + 1] = "spawned"]
           ELSE UNCHANGED <<wgCount, wsubject, whandler, pc>>
    /\ UNCHANGED <<lockVars, pubVars, obsVars, cancelled, closeCount, callerVars, rpc, queue,
                   closed, held, cur, subCalls, pulled, yielded, msgs, hErr, res>>

\* s.handlers[subject] = handler
RegisterHandler(c, subject, handler) ==
    /\ cpc[c] = "idle"
    /\ handlers' = SetHandlers(handlers, (subject :> handler))
    /\ UNCHANGED <<lockVars, pubVars, fetchCalls, hlog, hcalled, lastSeq, cancelled, wgCount, closeCount, callerVars, workerVars>>

RegisterHandlers(c, m) ==
    /\ cpc[c] = "idle"
    /\ handlers' = SetHandlers(handlers, m)
    /\ UNCHANGED <<lockVars, pubVars, fetchCalls, hlog, hcalled, lastSeq, cancelled, wgCount, closeCount, callerVars, workerVars>>

\* ------------------------------------------------------------------ Start

\* Faulty variant of StartRejects: the emptiness check is missing.
StartRejectsNever(reg) == FALSE

\* if len(s.handlers) == 0 { return fmt.Errorf("no handlers registered") }
StartRejects(reg) == reg = {}

\* Faulty variant of SpawnList: the loop misses one registered subject.
SpawnListSkipsOne(reg) == Tail(SelectSeq(SubjectOrder, LAMBDA s : s \in reg))

\* for subject, handler := range s.handlers: the subjects a goroutine is
\* started for, one entry per goroutine (Go ranges over the map in any order;
\* the model numbers the goroutines in SubjectOrder).
SpawnList(reg) == SelectSeq(SubjectOrder, LAMBDA s : s \in reg)

\* Faulty variant of Start: Start itself subscribes, and returns once every
\* Subscribe call has returned.
StartSubscribesFirst(c) ==
    /\ cpc[c] = "idle"
    /\ IF StartRejects(Registered)
       THEN /\ startResult' = "err"
            /\ UNCHANGED <<wgCount, wsubject, whandler, pc, rpc, subCalls, lateSpawn>>
       ELSE LET subs == SpawnList(Registered)
                n == Cardinality(Spawned)
                new == (n + 1)..(n + Len(subs))
            IN  /\ n + Len(subs) <= MaxWorkers
                /\ wgCount' = wgCount + Len(subs)
                /\ wsubject' = [w \in W |-> IF w \in new THEN subs[w - n] ELSE wsubject[w]]
                /\ whandler' = [w \in W |-> IF w \in new THEN handlers[subs[w - n]]
                                                       ELSE whandler[w]]
                /\ pc' = [w \in W |-> IF w \in new THEN "select" ELSE pc[w]]
                /\ rpc' = [w \in W |-> IF w \in new THEN "recv" ELSE rpc[w]]
                /\ subCalls' = [w \in W |-> IF w \in new THEN <<subs[w - n]>>
                                                       ELSE subCalls[w]]
                /\ startResult' = "ok"
                /\ lateSpawn' = (lateSpawn \/ cancelled)
    /\ UNCHANGED <<lockVars, pubVars, fetchCalls, hlog, hcalled, lastSeq, handlers, cancelled, closeCount, cpc, joinSet,
                   stopsBegun, stopsReturned, queue, closed, held, cur, pulled,
                   yielded, msgs, hErr, res>>

Start(c) ==
    /\ cpc[c] = "idle"
    /\ IF StartRejects(Registered)
       THEN /\ startResult' = "err"
            /\ UNCHANGED <<wgCount, wsubject, whandler, pc, lateSpawn>>
       ELSE LET subs == SpawnList(Registered)
                n == Cardinality(Spawned)
                new == (n + 1)..(n + Len(subs))
            IN  /\ n + Len(subs) <= MaxWorkers
                /\ wgCount' = wgCount + Len(subs)
                /\ wsubject' = [w \in W |-> IF w \in new THEN subs[w - n] ELSE wsubject[w]]
                /\ whandler' = [w \in W |-> IF w \in new THEN handlers[subs[w - n]]
                                                       ELSE whandler[w]]
                /\ pc' = [w \in W |-> IF w \in new THEN "spawned" ELSE pc[w]]
                /\ startResult' = "ok"
                /\ lateSpawn' = (lateSpawn \/ cancelled)
    /\ UNCHANGED <<lockVars, pubVars, fetchCalls, hlog, hcalled, lastSeq, handlers, cancelled, closeCount, cpc, joinSet, stopsBegun,
                   stopsReturned, rpc, queue, closed, held, cur, subCalls, pulled,
                   yielded, msgs, hErr, res>>

\* ------------------------------------------------------------------ s.mu

\* RegisterHandler, RegisterHandlers and Start step by step, with s.mu: what
\* the write lock and the read lock let the callers interleave.  m is the map
\* given to RegisterHandlers, or the one entry given to RegisterHandler.

\* The registration call is made; s.mu.Lock() is entered.
RegCall(c, m) ==
    /\ cpc[c] = "idle"
    /\ cpc' = [cpc EXCEPT ![c] = "regWait"]
    /\ regTodo' = [regTodo EXCEPT ![c] = m]
    /\ UNCHANGED <<pubVars, obsVars, coordVars, workerVars, joinSet, startResult,
                   lateSpawn, stopsBegun, stopsReturned, muReaders, muWriter,
                   startSeen, regAtLock>>

\* Faulty variant of RegLock: the write lock does not wait for the readers.
RegLockIgnoresReaders(c) ==
    /\ cpc[c] = "regWait"
    /\ muWriter = "none"
    /\ muWriter' = c
    /\ cpc' = [cpc EXCEPT ![c] = "regWrite"]
    /\ UNCHANGED <<pubVars, obsVars, coordVars, workerVars, joinSet, startResult,
                   lateSpawn, stopsBegun, stopsReturned, muReaders, regTodo, startSeen,
                   regAtLock>>

\* s.mu.Lock() returns: no other caller holds the lock, for reading or writing.
RegLock(c) ==
    /\ cpc[c] = "regWait"
    /\ muWriter = "none"
    /\ muReaders = {}
    /\ muWriter' = c
    /\ cpc' = [cpc EXCEPT ![c] = "regWrite"]
    /\ UNCHANGED <<pubVars, obsVars, coordVars, workerVars, joinSet, startResult,
                   lateSpawn, stopsBegun, stopsReturned, muReaders, regTodo, startSeen,
                   regAtLock>>

\* s.handlers[subject] = handler, for one entry of the map.
RegWriteOne(c) ==
    /\ cpc[c] = "regWrite"
    /\ \E s \in DOMAIN regTodo[c] :
          /\ handlers' = SetHandlers(handlers, (s :> regTodo[c][s]))
          /\ regTodo' = [regTodo EXCEPT
                            ![c] = [t \in DOMAIN regTodo[c] \ {s} |-> regTodo[c][t]]]
    /\ UNCHANGED <<pubVars, obsVars, cancelled, wgCount, closeCount, callerVars,
                   workerVars, muReaders, muWriter, startSeen, regAtLock>>

\* Every entry is written: the deferred s.mu.Unlock() runs and the call returns.
RegUnlock(c) ==
    /\ cpc[c] = "regWrite"
    /\ DOMAIN regTodo[c] = {}
    /\ muWriter' = "none"
    /\ cpc' = [cpc EXCEPT ![c] = "idle"]
    /\ UNCHANGED <<pubVars, obsVars, coordVars, workerVars, joinSet, startResult,
                   lateSpawn, stopsBegun, stopsReturned, muReaders, regTodo, startSeen,
                   regAtLock>>

\* Start: s.mu.RLock() returns: no caller holds the write lock.
StartRLock(c) ==
    /\ cpc[c] = "idle"
    /\ muWriter = "none"
    /\ muReaders' = muReaders \cup {c}
    /\ cpc' = [cpc EXCEPT ![c] = "startLocked"]
    /\ startSeen' = [startSeen EXCEPT ![c] = {}]
    /\ regAtLock' = [regAtLock EXCEPT ![c] = handlers]
    /\ UNCHANGED <<pubVars, obsVars, coordVars, workerVars, joinSet, startResult,
                   lateSpawn, stopsBegun, stopsReturned, muWriter, regTodo>>

\* Start: len(s.handlers) == 0: the error is returned and the deferred
\* s.mu.RUnlock() runs.
StartRejected(c) ==
    /\ cpc[c] = "startLocked"
    /\ StartRejects(Registered)
    /\ startResult' = "err"
    /\ muReaders' = muReaders \ {c}
    /\ cpc' = [cpc EXCEPT ![c] = "idle"]
    /\ UNCHANGED <<pubVars, obsVars, coordVars, workerVars, joinSet, lateSpawn,
                   stopsBegun, stopsReturned, muWriter, regTodo, startSeen, regAtLock>>

\* Start: the registry is not empty; the range loop is entered.
StartEnter(c) ==
    /\ cpc[c] = "startLocked"
    /\ ~ StartRejects(Registered)
    /\ cpc' = [cpc EXCEPT ![c] = "startSpawn"]
    /\ UNCHANGED <<pubVars, obsVars, coordVars, workerVars, joinSet, startResult,
                   lateSpawn, stopsBegun, stopsReturned, lockVars>>

\* Start: one round of the range loop: s.wg.Add(1) and go
\* s.subscribeToSubject(subject, handler) for an entry of s.handlers the loop
\* has not visited yet.
StartSpawnOne(c) ==
    /\ cpc[c] = "startSpawn"
    /\ \E s \in Registered \ startSeen[c] :
          LET n == Cardinality(Spawned)
          IN  /\ n < MaxWorkers
              /\ wgCount' = wgCount + 1
              /\ wsubject' = [wsubject EXCEPT ![n + 1] = s]
              /\ whandler' = [whandler EXCEPT ![n + 1] = handlers[s]]
              /\ pc' = [pc EXCEPT ![n + 1] = "spawned"]
              /\ startSeen' = [startSeen EXCEPT ![c] = @ \cup {s}]
    /\ lateSpawn' = (lateSpawn \/ cancelled)
    /\ UNCHANGED <<pubVars, obsVars, handlers, cancelled, closeCount, cpc, joinSet,
                   startResult, stopsBegun, stopsReturned, rpc, queue, closed, held,
                   cur, subCalls, pulled, yielded, msgs, hErr, res, muReaders,
                   muWriter, regTodo, regAtLock>>

\* Start: the range loop has visited every entry: nil is returned and the
\* deferred s.mu.RUnlock() runs.
StartRUnlock(c) ==
    /\ cpc[c] = "startSpawn"
    /\ Registered \subseteq startSeen[c]
    /\ startResult' = "ok"
    /\ muReaders' = muReaders \ {c}
    /\ cpc' = [cpc EXCEPT ![c] = "idle"]
    /\ UNCHANGED <<pubVars, obsVars, coordVars, workerVars, joinSet, lateSpawn,
                   stopsBegun, stopsReturned, muWriter, regTodo, startSeen, regAtLock>>

\* ------------------------------------------------------------------ subscribeToSubject

\* config.Subject of the Subscribe call.
SubscribeSubject(w) == wsubject[w]

\* config := &domain.SubscriptionConfig{...} of subscribeToSubject.
SubscribeConfig(w) ==
    [subject |-> SubscribeSubject(w), durableName |-> DurableName, batchSize |-> BatchSize]

\* defer s.wg.Done(): the goroutine returns.
WorkerExit(w) ==
    /\ pc' = [pc EXCEPT ![w] = "exited"]
    /\ wgCount' = wgCount - 1

\* s.client.Subscribe returned a stream: the receiver goroutine is started and
\* the dispatch loop is entered.
SubscribeOk(w) ==
    /\ pc[w] = "spawned"
    /\ subCalls' = [subCalls EXCEPT ![w] = Append(@, SubscribeSubject(w))]
    /\ pc' = [pc EXCEPT ![w] = "select"]
    /\ rpc' = [rpc EXCEPT ![w] = "recv"]
    /\ UNCHANGED <<lockVars, pubVars, fetchCalls, hlog, hcalled, lastSeq, coordVars, callerVars, wsubject, whandler, queue, closed, held,
                   cur, pulled, yielded, msgs, hErr, res>>

\* Faulty variant of SubscribeFail: after a failed Subscribe the call is made
\* again.
SubscribeFailRetries(w) ==
    /\ pc[w] = "spawned"
    /\ subCalls' = [subCalls EXCEPT ![w] = Append(@, SubscribeSubject(w))]
    /\ UNCHANGED <<lockVars, pubVars, obsVars, coordVars, callerVars, wsubject, whandler, pc,
                   rpc, queue, closed, held, cur, pulled, yielded, msgs, hErr, res>>

\* Faulty variant of SubscribeFail: the failure becomes the result of Start.
SubscribeFailReported(w) ==
    /\ pc[w] = "spawned"
    /\ subCalls' = [subCalls EXCEPT ![w] = Append(@, SubscribeSubject(w))]
    /\ WorkerExit(w)
    /\ startResult' = "err"
    /\ UNCHANGED <<lockVars, pubVars, obsVars, handlers, cancelled, closeCount, cpc, joinSet,
                   lateSpawn, stopsBegun, stopsReturned, wsubject, whandler, rpc,
                   queue, closed, held, cur, pulled, yielded, msgs, hErr, res>>

\* s.client.Subscribe returned an error: log and return.
SubscribeFail(w) ==
    /\ pc[w] = "spawned"
    /\ subCalls' = [subCalls EXCEPT ![w] = Append(@, SubscribeSubject(w))]
    /\ WorkerExit(w)
    /\ UNCHANGED <<lockVars, pubVars, fetchCalls, hlog, hcalled, lastSeq, handlers, cancelled, closeCount, callerVars, wsubject, whandler,
                   rpc, queue, closed, held, cur, pulled, yielded, msgs, hErr,
                   res>>

\* The receiver goroutine returns; its deferred close(notificationChan) runs.
RelayExit(w) ==
    /\ rpc' = [rpc EXCEPT ![w] = "done"]
    /\ closed' = [closed EXCEPT ![w] = TRUE]
    /\ held' = [held EXCEPT ![w] = NoNotif]

\* notificationStream.Recv() returned a notification.
RelayRecvNotification(w, s) ==
    /\ rpc[w] = "recv"
    /\ pulled < MaxNotif
    /\ held' = [held EXCEPT ![w] = [subject |-> s, sequence |-> pulled + 1]]
    /\ pulled' = pulled + 1
    /\ rpc' = [rpc EXCEPT ![w] = "push"]
    /\ UNCHANGED <<lockVars, pubVars, fetchCalls, hlog, hcalled, lastSeq, coordVars, callerVars, wsubject, whandler, pc, queue, closed,
                   cur, subCalls, yielded, msgs, hErr, res>>

\* Faulty variant of RelayRecvEOF: the goroutine returns without closing the
\* channel.
RelayRecvEOFLeavesOpen(w) ==
    /\ rpc[w] = "recv"
    /\ rpc' = [rpc EXCEPT ![w] = "done"]
    /\ UNCHANGED <<lockVars, pubVars, obsVars, coordVars, callerVars, wsubject, whandler, pc,
                   queue, closed, held, cur, subCalls, pulled, yielded, msgs, hErr,
                   res>>

\* notificationStream.Recv() returned io.EOF.
RelayRecvEOF(w) ==
    /\ rpc[w] = "recv"
    /\ RelayExit(w)
    /\ UNCHANGED <<lockVars, pubVars, fetchCalls, hlog, hcalled, lastSeq, coordVars, callerVars, wsubject, whandler, pc, queue, cur,
                   subCalls, pulled, yielded, msgs, hErr, res>>

\* Faulty variant of RelayRecvError: a broken notification stream cancels the shared
\* context.
RelayRecvErrorCancels(w) ==
    /\ rpc[w] = "recv"
    /\ RelayExit(w)
    /\ cancelled' = TRUE
    /\ UNCHANGED <<lockVars, pubVars, fetchCalls, hlog, hcalled, lastSeq, handlers, wgCount, closeCount, callerVars, wsubject, whandler, pc,
                   queue, cur, subCalls, pulled, yielded, msgs, hErr, res>>

\* Faulty variant of RelayRecvError: the goroutine returns without closing the
\* channel.
RelayRecvErrorLeavesOpen(w) ==
    /\ rpc[w] = "recv"
    /\ rpc' = [rpc EXCEPT ![w] = "done"]
    /\ UNCHANGED <<lockVars, pubVars, obsVars, coordVars, callerVars, wsubject, whandler, pc,
                   queue, closed, held, cur, subCalls, pulled, yielded, msgs, hErr,
                   res>>

\* notificationStream.Recv() returned another error: with or without
\* cancellation the goroutine returns.
RelayRecvError(w) ==
    /\ rpc[w] = "recv"
    /\ RelayExit(w)
    /\ UNCHANGED <<lockVars, pubVars, fetchCalls, hlog, hcalled, lastSeq, coordVars, callerVars, wsubject, whandler, pc, queue, cur,
                   subCalls, pulled, yielded, msgs, hErr, res>>

\* Faulty variant of RelayPush: the channel takes the notification whether or
\* not it has room.
RelayPushUnbounded(w) ==
    /\ rpc[w] = "push"
    /\ queue' = [queue EXCEPT ![w] = Append(@, held[w])]
    /\ held' = [held EXCEPT ![w] = NoNotif]
    /\ rpc' = [rpc EXCEPT ![w] = "recv"]
    /\ UNCHANGED <<lockVars, pubVars, obsVars, coordVars, callerVars, wsubject, whandler, pc,
                   closed, cur, subCalls, pulled, yielded, msgs, hErr, res>>

\* select { case notificationChan <- notification: ... }
RelayPush(w) ==
    /\ rpc[w] = "push"
    /\ Len(queue[w]) < QueueCap
    /\ queue' = [queue EXCEPT ![w] = Append(@, held[w])]
    /\ held' = [held EXCEPT ![w] = NoNotif]
    /\ rpc' = [rpc EXCEPT ![w] = "recv"]
    /\ UNCHANGED <<lockVars, pubVars, fetchCalls, hlog, hcalled, lastSeq, coordVars, callerVars, wsubject, whandler, pc, closed, cur,
                   subCalls, pulled, yielded, msgs, hErr, res>>

\* Faulty variant of RelayPushCancelled: the select has no ctx.Done case, the
\* goroutine leaves it only by sending.
RelayPushOnlySends(w) ==
    /\ rpc[w] = "push"
    /\ cancelled
    /\ Len(queue[w]) < QueueCap
    /\ queue' = [queue EXCEPT ![w] = Append(@, held[w])]
    /\ held' = [held EXCEPT ![w] = NoNotif]
    /\ rpc' = [rpc EXCEPT ![w] = "recv"]
    /\ UNCHANGED <<lockVars, pubVars, obsVars, coordVars, callerVars, wsubject, whandler, pc,
                   closed, cur, subCalls, pulled, yielded, msgs, hErr, res>>

\* Faulty variant of RelayPushCancelled: on cancellation the goroutine returns
\* without closing the channel.
RelayPushCancelledLeavesOpen(w) ==
    /\ rpc[w] = "push"
    /\ cancelled
    /\ rpc' = [rpc EXCEPT ![w] = "done"]
    /\ held' = [held EXCEPT ![w] = NoNotif]
    /\ UNCHANGED <<lockVars, pubVars, obsVars, coordVars, callerVars, wsubject,
                   whandler, pc, queue, closed, cur, subCalls, pulled, yielded, msgs,
                   hErr, res>>

\* select { ... case <-s.ctx.Done(): return }
RelayPushCancelled(w) ==
    /\ rpc[w] = "push"
    /\ cancelled
    /\ RelayExit(w)
    /\ UNCHANGED <<lockVars, pubVars, fetchCalls, hlog, hcalled, lastSeq, coordVars, callerVars, wsubject, whandler, pc, queue, cur,
                   subCalls, pulled, yielded, msgs, hErr, res>>

\* Dispatch loop: case <-s.ctx.Done(): return
DispatchCancelled(w) ==
    /\ pc[w] = "select"
    /\ cancelled
    /\ WorkerExit(w)
    /\ UNCHANGED <<lockVars, pubVars, fetchCalls, hlog, hcalled, lastSeq, handlers, cancelled, closeCount, callerVars, wsubject, whandler,
                   rpc, queue, closed, held, cur, subCalls, pulled, yielded, msgs,
                   hErr, res>>

\* Faulty variant of DispatchTake: the notification is read and left in the
\* channel.
DispatchTakeLeavesIt(w) ==
    /\ pc[w] = "select"
    /\ queue[w] # <<>>
    /\ cur' = [cur EXCEPT ![w] = Head(queue[w])]
    /\ pc' = [pc EXCEPT ![w] = "fetch"]
    /\ lastSeq' = [lastSeq EXCEPT ![w] = Head(queue[w]).sequence]
    /\ UNCHANGED <<lockVars, pubVars, fetchCalls, hlog, hcalled, coordVars, callerVars, wsubject, whandler, rpc, queue,
                   closed, held, subCalls, pulled, yielded, msgs, hErr, res>>

\* Faulty variant of DispatchTake: a worker takes no notification while the
\* handler of another worker is running.
DispatchTakeSerialised(w) ==
    /\ pc[w] = "select"
    /\ queue[w] # <<>>
    /\ \A v \in W \ {w} : pc[v] # "handle"
    /\ cur' = [cur EXCEPT ![w] = Head(queue[w])]
    /\ queue' = [queue EXCEPT ![w] = Tail(@)]
    /\ pc' = [pc EXCEPT ![w] = "fetch"]
    /\ lastSeq' = [lastSeq EXCEPT ![w] = Head(queue[w]).sequence]
    /\ UNCHANGED <<lockVars, pubVars, fetchCalls, hlog, hcalled, coordVars, callerVars, wsubject, whandler,
                   rpc, closed, held, subCalls, pulled, yielded, msgs, hErr, res>>

\* Dispatch loop: case notification, ok := <-notificationChan with ok = true;
\* processNotification is called.
DispatchTake(w) ==
    /\ pc[w] = "select"
    /\ queue[w] # <<>>
    /\ cur' = [cur EXCEPT ![w] = Head(queue[w])]
    /\ queue' = [queue EXCEPT ![w] = Tail(@)]
    /\ pc' = [pc EXCEPT ![w] = "fetch"]
    /\ lastSeq' = [lastSeq EXCEPT ![w] = Head(queue[w]).sequence]
    /\ UNCHANGED <<lockVars, pubVars, fetchCalls, hlog, hcalled, coordVars, callerVars, wsubject, whandler, rpc, closed, held,
                   subCalls, pulled, yielded, msgs, hErr, res>>

\* Faulty variant of DispatchClosed: the loop returns as soon as the channel is
\* closed, whatever the channel still holds.
DispatchClosedDropsQueue(w) ==
    /\ pc[w] = "select"
    /\ closed[w]
    /\ WorkerExit(w)
    /\ UNCHANGED <<lockVars, pubVars, obsVars, handlers, cancelled, closeCount, callerVars,
                   wsubject, whandler, rpc, queue, closed, held, cur, subCalls, pulled,
                   yielded, msgs, hErr, res>>

\* Dispatch loop: the channel is closed and drained (ok = false): return.
DispatchClosed(w) ==
    /\ pc[w] = "select"
    /\ queue[w] = <<>>
    /\ closed[w]
    /\ WorkerExit(w)
    /\ UNCHANGED <<lockVars, pubVars, fetchCalls, hlog, hcalled, lastSeq, handlers, cancelled, closeCount, callerVars, wsubject, whandler,
                   rpc, queue, closed, held, cur, subCalls, pulled, yielded, msgs,
                   hErr, res>>

\* ------------------------------------------------------------------ processNotification

\* processNotification returns res (nil: "ok", an error: "err").
CycleEnd(w, r) ==
    /\ res' = [res EXCEPT ![w] = r]
    /\ pc' = [pc EXCEPT ![w] = "returned"]

\* Back in the dispatch loop: an error result is logged, and the loop goes
\* round to its select.
DispatchLoop(w) ==
    /\ pc[w] = "returned"
    /\ pc' = [pc EXCEPT ![w] = "select"]
    /\ res' = [res EXCEPT ![w] = "none"]
    /\ cur' = [cur EXCEPT ![w] = NoNotif]
    /\ msgs' = [msgs EXCEPT ![w] = 0]
    /\ hErr' = [hErr EXCEPT ![w] = FALSE]
    /\ hlog' = [hlog EXCEPT ![w] = <<>>]
    /\ fetchCalls' = [fetchCalls EXCEPT ![w] = <<>>]
    /\ UNCHANGED <<lockVars, pubVars, lastSeq, hcalled, coordVars, callerVars, wsubject, whandler, rpc,
                   queue, closed, held, subCalls, pulled, yielded>>

\* config := &domain.SubscriptionConfig{...} of processNotification: the
\* subject is the notification's.
FetchConfig(w) ==
    [subject |-> cur[w].subject, durableName |-> DurableName, batchSize |-> BatchSize]

\* s.client.Fetch returned a stream.
FetchOk(w) ==
    /\ pc[w] = "fetch"
    /\ fetchCalls' = [fetchCalls EXCEPT ![w] = Append(@, FetchConfig(w))]
    /\ pc' = [pc EXCEPT ![w] = "recv"]
    /\ UNCHANGED <<lockVars, pubVars, hlog, hcalled, lastSeq, coordVars, callerVars, wsubject, whandler, rpc, queue, closed,
                   held, cur, subCalls, pulled, yielded, msgs, hErr, res>>

\* Faulty variant of FetchFail: after a failed Fetch the call is made again.
FetchFailRetries(w) ==
    /\ pc[w] = "fetch"
    /\ fetchCalls' = [fetchCalls EXCEPT ![w] = Append(@, FetchConfig(w))]
    /\ UNCHANGED <<lockVars, pubVars, hlog, hcalled, lastSeq, coordVars, callerVars, wsubject, whandler,
                   pc, rpc, queue, closed, held, cur, subCalls, pulled, yielded, msgs,
                   hErr, res>>

\* s.client.Fetch returned an error: "failed to fetch".
FetchFail(w) ==
    /\ pc[w] = "fetch"
    /\ fetchCalls' = [fetchCalls EXCEPT ![w] = Append(@, FetchConfig(w))]
    /\ CycleEnd(w, "err")
    /\ UNCHANGED <<lockVars, pubVars, hlog, hcalled, lastSeq, coordVars, callerVars, wsubject, whandler, rpc, queue, closed,
                   held, cur, subCalls, pulled, yielded, msgs, hErr>>

\* Faulty variant of MsgRecv: the message is counted and the loop goes on
\* without calling the handler.
MsgRecvSkipsHandler(w) ==
    /\ pc[w] = "recv"
    /\ yielded < MaxMsgs
    /\ yielded' = yielded + 1
    /\ msgs' = [msgs EXCEPT ![w] = @ + 1]
    /\ UNCHANGED <<lockVars, pubVars, obsVars, coordVars, callerVars, wsubject, whandler, pc, rpc,
                   queue, closed, held, cur, subCalls, pulled, hErr, res>>

\* Faulty variant of MsgRecv: the handler is looked up in s.handlers when the
\* message arrives.
MsgRecvLooksUpRegistry(w) ==
    /\ pc[w] = "recv"
    /\ yielded < MaxMsgs
    /\ yielded' = yielded + 1
    /\ msgs' = [msgs EXCEPT ![w] = @ + 1]
    /\ pc' = [pc EXCEPT ![w] = "handle"]
    /\ hlog' = [hlog EXCEPT ![w] = Append(@, msgs[w] + 1)]
    /\ hcalled' = [hcalled EXCEPT ![w] = handlers[wsubject[w]]]
    /\ UNCHANGED <<lockVars, pubVars, fetchCalls, lastSeq, coordVars, callerVars,
                   wsubject, whandler, rpc, queue, closed, held, cur, subCalls, pulled,
                   hErr, res>>

\* messageStream.Recv() returned a message: messageCount++, handler.Handle is
\* called.
MsgRecv(w) ==
    /\ pc[w] = "recv"
    /\ yielded < MaxMsgs
    /\ yielded' = yielded + 1
    /\ msgs' = [msgs EXCEPT ![w] = @ + 1]
    /\ pc' = [pc EXCEPT ![w] = "handle"]
    /\ hlog' = [hlog EXCEPT ![w] = Append(@, msgs[w] + 1)]
    /\ hcalled' = [hcalled EXCEPT ![w] = whandler[w]]
    /\ UNCHANGED <<lockVars, pubVars, fetchCalls, lastSeq, coordVars, callerVars, wsubject, whandler, rpc, queue, closed,
                   held, cur, subCalls, pulled, hErr, res>>

\* messageStream.Recv() returned io.EOF: break, return nil.
MsgEOF(w) ==
    /\ pc[w] = "recv"
    /\ CycleEnd(w, "ok")
    /\ UNCHANGED <<lockVars, pubVars, fetchCalls, hlog, hcalled, lastSeq, coordVars, callerVars, wsubject, whandler, rpc, queue, closed,
                   held, cur, subCalls, pulled, yielded, msgs, hErr>>

\* Faulty variant of MsgError: a broken message stream ends the worker.
MsgErrorEndsWorker(w) ==
    /\ pc[w] = "recv"
    /\ res' = [res EXCEPT ![w] = "err"]
    /\ WorkerExit(w)
    /\ UNCHANGED <<lockVars, pubVars, obsVars, handlers, cancelled, closeCount, callerVars,
                   wsubject, whandler, rpc, queue, closed, held, cur, subCalls, pulled,
                   yielded, msgs, hErr>>

\* messageStream.Recv() returned another error: "fetch error".
MsgError(w) ==
    /\ pc[w] = "recv"
    /\ CycleEnd(w, "err")
    /\ UNCHANGED <<lockVars, pubVars, fetchCalls, hlog, hcalled, lastSeq, coordVars, callerVars, wsubject, whandler, rpc, queue, closed,
                   held, cur, subCalls, pulled, yielded, msgs, hErr>>

\* Faulty variant of HandleOk: after each handler call the loop looks at the
\* context and returns when it is cancelled.
HandleOkChecksCtx(w) ==
    /\ pc[w] = "handle"
    /\ IF cancelled
       THEN CycleEnd(w, "err")
       ELSE pc' = [pc EXCEPT ![w] = "recv"] /\ res' = res
    /\ UNCHANGED <<lockVars, pubVars, obsVars, coordVars, callerVars, wsubject,
                   whandler, rpc, queue, closed, held, cur, subCalls, pulled, yielded,
                   msgs, hErr>>

\* handler.Handle returned nil.
HandleOk(w) ==
    /\ pc[w] = "handle"
    /\ pc' = [pc EXCEPT ![w] = "recv"]
    /\ UNCHANGED <<lockVars, pubVars, fetchCalls, hlog, hcalled, lastSeq, coordVars, callerVars, wsubject, whandler, rpc, queue, closed,
                   held, cur, subCalls, pulled, yielded, msgs, hErr, res>>

\* Faulty variant of HandleError: a handler error is returned from processNotification.
HandleErrorAborts(w) ==
    /\ pc[w] = "handle"
    /\ hErr' = [hErr EXCEPT ![w] = TRUE]
    /\ CycleEnd(w, "err")
    /\ UNCHANGED <<lockVars, pubVars, fetchCalls, hlog, hcalled, lastSeq, coordVars, callerVars, wsubject, whandler, rpc, queue, closed,
                   held, cur, subCalls, pulled, yielded, msgs>>

\* handler.Handle returned an error: it is logged and the loop continues.
HandleError(w) ==
    /\ pc[w] = "handle"
    /\ pc' = [pc EXCEPT ![w] = "recv"]
    /\ hErr' = [hErr EXCEPT ![w] = TRUE]
    /\ UNCHANGED <<lockVars, pubVars, fetchCalls, hlog, hcalled, lastSeq, coordVars, callerVars, wsubject, whandler, rpc, queue, closed,
                   held, cur, subCalls, pulled, yielded, msgs, res>>

\* ------------------------------------------------------------------ Stop, Wait

\* Stop: s.cancel(), then s.wg.Wait() is entered.
StopCancel(c) ==
    /\ cpc[c] = "idle"
    /\ stopsBegun < MaxStops
    /\ stopsBegun' = stopsBegun + 1
    /\ cancelled' = TRUE
    /\ cpc' = [cpc EXCEPT ![c] = "stopWait"]
    /\ joinSet' = [joinSet EXCEPT ![c] = Spawned]
    /\ UNCHANGED <<lockVars, pubVars, fetchCalls, hlog, hcalled, lastSeq, handlers, wgCount, closeCount, startResult, lateSpawn,
                   stopsReturned, workerVars>>

\* Faulty variant of StopJoin: Stop does not wait for the workers.
StopJoinNoWait(c) ==
    /\ cpc[c] = "stopWait"
    /\ cpc' = [cpc EXCEPT ![c] = "stopClose"]
    /\ UNCHANGED <<lockVars, pubVars, fetchCalls, hlog, hcalled, lastSeq, coordVars, joinSet, startResult, lateSpawn, stopsBegun,
                   stopsReturned, workerVars>>

\* Stop: s.wg.Wait() returns once the counter is zero.
StopJoin(c) ==
    /\ cpc[c] = "stopWait"
    /\ wgCount = 0
    /\ cpc' = [cpc EXCEPT ![c] = "stopClose"]
    /\ UNCHANGED <<lockVars, pubVars, fetchCalls, hlog, hcalled, lastSeq, coordVars, joinSet, startResult, lateSpawn, stopsBegun,
                   stopsReturned, workerVars>>

\* Stop: s.client.Close(), then Stop returns.
StopClose(c) ==
    /\ cpc[c] = "stopClose"
    /\ closeCount' = closeCount + 1
    /\ stopsReturned' = stopsReturned + 1
    /\ cpc' = [cpc EXCEPT ![c] = "idle"]
    /\ joinSet' = [joinSet EXCEPT ![c] = {}]
    /\ UNCHANGED <<lockVars, pubVars, fetchCalls, hlog, hcalled, lastSeq, handlers, cancelled, wgCount, startResult, lateSpawn,
                   stopsBegun, workerVars>>

\* Faulty variant of WaitBegin: Wait cancels the context, as Stop does.
WaitBeginCancels(c) ==
    /\ cpc[c] = "idle"
    /\ cancelled' = TRUE
    /\ cpc' = [cpc EXCEPT ![c] = "waitWait"]
    /\ UNCHANGED <<lockVars, pubVars, fetchCalls, hlog, hcalled, lastSeq, handlers, wgCount, closeCount, joinSet, startResult, lateSpawn,
                   stopsBegun, stopsReturned, workerVars>>

\* Wait: s.wg.Wait() is entered.
WaitBegin(c) ==
    /\ cpc[c] = "idle"
    /\ cpc' = [cpc EXCEPT ![c] = "waitWait"]
    /\ UNCHANGED <<lockVars, pubVars, fetchCalls, hlog, hcalled, lastSeq, coordVars, joinSet, startResult, lateSpawn, stopsBegun,
                   stopsReturned, workerVars>>

\* Faulty variant of WaitReturn: Wait returns without looking at the counter.
WaitReturnEarly(c) ==
    /\ cpc[c] = "waitWait"
    /\ cpc' = [cpc EXCEPT ![c] = "idle"]
    /\ UNCHANGED <<lockVars, pubVars, fetchCalls, hlog, hcalled, lastSeq, coordVars, joinSet, startResult, lateSpawn, stopsBegun,
                   stopsReturned, workerVars>>

\* Wait: s.wg.Wait() returns once the counter is zero; Wait returns.
WaitReturn(c) ==
    /\ cpc[c] = "waitWait"
    /\ wgCount = 0
    /\ cpc' = [cpc EXCEPT ![c] = "idle"]
    /\ UNCHANGED <<lockVars, pubVars, fetchCalls, hlog, hcalled, lastSeq, coordVars, joinSet, startResult, lateSpawn, stopsBegun,
                   stopsReturned, workerVars>>

\* ------------------------------------------------------------------ SimplePublisher

\* The preparer slices a call may be given: nil or empty, up to MaxPreparers
\* entries, the same preparer possibly more than once.
PreparerLists == UNION {[1..n -> Preparers] : n \in 0..MaxPreparers}

\* p.preparers = append(p.preparers, preparer)
PubRegisterHandler(p) ==
    /\ Len(preparers) < MaxPreparers
    /\ preparers' = Append(preparers, p)
    /\ UNCHANGED <<lockVars, coordVars, callerVars, workerVars, obsVars, ppc, pubGiven, pubList,
                   tpc, prepCalls, clientCalls, errChan, pubResult, perr, rhRes>>

\* for _, preparer := range preparers { p.preparers = append(p.preparers, preparer) }
PubRegisterHandlers(ps) ==
    /\ Len(preparers) + Len(ps) <= MaxPreparers
    /\ preparers' = preparers \o ps
    /\ UNCHANGED <<lockVars, coordVars, callerVars, workerVars, obsVars, ppc, pubGiven, pubList,
                   tpc, prepCalls, clientCalls, errChan, pubResult, perr, rhRes>>

\* Faulty variant of PreparersToPublish: the registered preparers are never used.
PreparersToPublishGivenOnly(given, registered) == given

\* if len(preparers) == 0 { preparers = p.preparers }
PreparersToPublish(given, registered) ==
    IF Len(given) = 0 THEN registered ELSE given

\* PublishAll up to wg.Wait(): with nothing to publish it returns the error
\* "no message preparers to publish"; otherwise it makes errChan and starts one
\* goroutine per preparer.
PublishAll(given) ==
    /\ ppc = "idle"
    /\ pubGiven' = given
    /\ LET list == PreparersToPublish(given, preparers)
       IN  /\ pubList' = list
           /\ tpc' = [i \in T |-> IF i <= Len(list) THEN "prepare" ELSE "none"]
           /\ IF Len(list) = 0
              THEN /\ pubResult' = [kind |-> "empty", failed |-> 0]
                   /\ ppc' = "idle"
              ELSE /\ pubResult' = NoResult
                   /\ ppc' = "wait"
    /\ prepCalls' = [i \in T |-> 0]
    /\ clientCalls' = 0
    /\ errChan' = <<>>
    /\ perr' = [i \in T |-> "nil"]
    /\ rhRes' = [i \in T |-> "none"]
    /\ UNCHANGED <<lockVars, coordVars, callerVars, workerVars, obsVars, preparers>>

\* Faulty variant of TaskFail: errChan has room for one error only.
TaskFailOneSlot(i) ==
    /\ Len(errChan) < 1
    /\ errChan' = Append(errChan, i)
    /\ tpc' = [tpc EXCEPT ![i] = "failed"]

\* publishOne returned an error: errChan <- fmt.Errorf("message %d: %w", idx+1, err),
\* a send that needs room in the channel; then wg.Done().
TaskFail(i) ==
    /\ Len(errChan) < Len(pubList)
    /\ errChan' = Append(errChan, i)
    /\ tpc' = [tpc EXCEPT ![i] = "failed"]

\* preparer.Prepare returned a message.
PrepareOk(i) ==
    /\ tpc[i] = "prepare"
    /\ prepCalls' = [prepCalls EXCEPT ![i] = @ + 1]
    /\ tpc' = [tpc EXCEPT ![i] = "publish"]
    /\ UNCHANGED <<lockVars, coordVars, callerVars, workerVars, obsVars, preparers, ppc,
                   pubGiven, pubList, clientCalls, errChan, pubResult, perr, rhRes>>

\* preparer.Prepare returned an error: "failed to prepare".
PrepareFail(i) ==
    /\ tpc[i] = "prepare"
    /\ prepCalls' = [prepCalls EXCEPT ![i] = @ + 1]
    /\ TaskFail(i)
    /\ perr' = [perr EXCEPT ![i] = "failed to prepare message"]
    /\ UNCHANGED <<lockVars, coordVars, callerVars, workerVars, obsVars, preparers, ppc,
                   pubGiven, pubList, clientCalls, pubResult, rhRes>>

\* preparer.Prepare returned nil, nil: "preparer returned nil message".
PrepareNil(i) ==
    /\ tpc[i] = "prepare"
    /\ prepCalls' = [prepCalls EXCEPT ![i] = @ + 1]
    /\ TaskFail(i)
    /\ perr' = [perr EXCEPT ![i] = "preparer returned nil message"]
    /\ UNCHANGED <<lockVars, coordVars, callerVars, workerVars, obsVars, preparers, ppc,
                   pubGiven, pubList, clientCalls, pubResult, rhRes>>

\* p.client.Publish returned a result.
ClientPublishOk(i) ==
    /\ tpc[i] = "publish"
    /\ clientCalls' = clientCalls + 1
    /\ tpc' = [tpc EXCEPT ![i] = "result"]
    /\ UNCHANGED <<lockVars, coordVars, callerVars, workerVars, obsVars, preparers, ppc,
                   pubGiven, pubList, prepCalls, errChan, pubResult, perr, rhRes>>

\* p.client.Publish returned an error: "publish failed".
ClientPublishFail(i) ==
    /\ tpc[i] = "publish"
    /\ clientCalls' = clientCalls + 1
    /\ TaskFail(i)
    /\ perr' = [perr EXCEPT ![i] = "publish failed"]
    /\ UNCHANGED <<lockVars, coordVars, callerVars, workerVars, obsVars, preparers, ppc,
                   pubGiven, pubList, prepCalls, pubResult, rhRes>>

\* Faulty variant of ResultHandled: an error of the result handler is returned
\* from publishOne.
ResultHandledFails(i) ==
    /\ tpc[i] = "result"
    /\ \E r \in {"nil", "err"} :
          /\ rhRes' = [rhRes EXCEPT ![i] = r]
          /\ IF r = "err"
             THEN /\ TaskFail(i)
                  /\ perr' = [perr EXCEPT ![i] = "result handler error"]
             ELSE /\ tpc' = [tpc EXCEPT ![i] = "status"]
                  /\ UNCHANGED <<errChan, perr>>
    /\ UNCHANGED <<lockVars, coordVars, callerVars, workerVars, obsVars, preparers, ppc,
                   pubGiven, pubList, prepCalls, clientCalls, pubResult>>

\* p.resultHandler.Handle was called on the result (New installs a result
\* handler when none is configured); an error from it is only logged.
ResultHandled(i) ==
    /\ tpc[i] = "result"
    /\ tpc' = [tpc EXCEPT ![i] = "status"]
    /\ \E r \in {"nil", "err"} : rhRes' = [rhRes EXCEPT ![i] = r]
    /\ UNCHANGED <<lockVars, coordVars, callerVars, workerVars, obsVars, preparers, ppc,
                   pubGiven, pubList, prepCalls, clientCalls, errChan, pubResult, perr>>

\* result.StatusCode == 0: publishOne returns nil; wg.Done().
StatusOk(i) ==
    /\ tpc[i] = "status"
    /\ tpc' = [tpc EXCEPT ![i] = "done"]
    /\ UNCHANGED <<lockVars, coordVars, callerVars, workerVars, obsVars, preparers, ppc,
                   pubGiven, pubList, prepCalls, clientCalls, errChan, pubResult, perr, rhRes>>

\* result.StatusCode != 0: "server error".
StatusError(i) ==
    /\ tpc[i] = "status"
    /\ TaskFail(i)
    /\ perr' = [perr EXCEPT ![i] = "server error"]
    /\ UNCHANGED <<lockVars, coordVars, callerVars, workerVars, obsVars, preparers, ppc,
                   pubGiven, pubList, prepCalls, clientCalls, pubResult, rhRes>>

\* Faulty variant of PublishAllResult: only the first error is reported.
PublishAllResultFirstOnly(errs) ==
    IF Len(errs) > 0 THEN [kind |-> "err", failed |-> 1] ELSE [kind |-> "ok", failed |-> 0]

\* if len(errs) > 0 { return fmt.Errorf("failed to publish %d messages: %v", len(errs), errs) }
\* return nil
PublishAllResult(errs) ==
    IF Len(errs) > 0 THEN [kind |-> "err", failed |-> Len(errs)]
                     ELSE [kind |-> "ok", failed |-> 0]

\* wg.Wait() returns once every goroutine is done; errChan is closed and read
\* to its end; PublishAll returns.
PublishAllReturn ==
    /\ ppc = "wait"
    /\ \A i \in 1..Len(pubList) : tpc[i] \in {"done", "failed"}
    /\ pubResult' = PublishAllResult(errChan)
    /\ ppc' = "idle"
    /\ UNCHANGED <<lockVars, coordVars, callerVars, workerVars, obsVars, preparers, pubGiven,
                   pubList, tpc, prepCalls, clientCalls, errChan, perr, rhRes>>

\* ------------------------------------------------------------------ specification

\* The maps RegisterHandlers may be given, with handlers drawn from H.
HandlerMaps(H) == UNION {[d -> H] : d \in SUBSET Subjects}

Registration(H) ==
    \/ \E c \in Callers, s \in Subjects, h \in H : RegisterHandler(c, s, h)
    \/ \E c \in Callers, m \in HandlerMaps(H) : RegisterHandlers(c, m)

Lifecycle ==
    \/ \E c \in Callers : Start(c)
    \/ \E c \in Callers : StopCancel(c)
    \/ \E c \in Callers : StopJoin(c)
    \/ \E c \in Callers : StopClose(c)
    \/ \E c \in Callers : WaitBegin(c)
    \/ \E c \in Callers : WaitReturn(c)

\* Subscription and the ways a worker ends.
WorkerOpenClose ==
    \/ \E w \in W : SubscribeOk(w)
    \/ \E w \in W : SubscribeFail(w)
    \/ \E w \in W : RelayRecvEOF(w)
    \/ \E w \in W : RelayRecvError(w)
    \/ \E w \in W : DispatchCancelled(w)
    \/ \E w \in W : DispatchClosed(w)

\* Notifications through the channel.
WorkerRelay ==
    \/ \E w \in W : RelayPush(w)
    \/ \E w \in W : RelayPushCancelled(w)
    \/ \E w \in W : DispatchTake(w)
    \/ \E w \in W : DispatchLoop(w)

\* processNotification.
WorkerFetch ==
    \/ \E w \in W : FetchOk(w)
    \/ \E w \in W : FetchFail(w)
    \/ \E w \in W : MsgRecv(w)
    \/ \E w \in W : MsgEOF(w)
    \/ \E w \in W : MsgError(w)
    \/ \E w \in W : HandleOk(w)
    \/ \E w \in W : HandleError(w)

\* Every operation, every outcome of the environment.
Next ==
    \/ Registration(Handlers)
    \/ Lifecycle
    \/ WorkerOpenClose
    \/ \E w \in W, s \in Subjects : RelayRecvNotification(w, s)
    \/ WorkerRelay
    \/ WorkerFetch

Spec == Init /\ [][Next]_vars

\* Spec has tens of millions of states within the bounds above.  The two
\* specifications below keep Init and take their steps from the same actions
\* with fewer callers, handler values and stream outcomes, so each of their
\* behaviours is a behaviour of Spec.

\* The coordinator's lifecycle: every caller may register (one handler value),
\* start, stop and wait at any time; the notification streams yield no
\* notification: a worker subscribes, waits in its dispatch loop, and ends with
\* its stream or with cancellation.
NextLifecycle ==
    \/ Registration({"h1"})
    \/ Lifecycle
    \/ WorkerOpenClose

SpecLifecycle == Init /\ [][NextLifecycle]_vars

\* The workers: one caller registers (one handler value), starts, and stops
\* once;
\* the streams yield up to MaxNotif notifications, each naming the worker's
\* own subject, and up to MaxMsgs messages.
NextWorkers ==
    \/ \E s \in Subjects : RegisterHandler("c1", s, "h1")
    \/ Start("c1")
    \/ (stopsBegun = 0 /\ StopCancel("c1"))
    \/ StopJoin("c1")
    \/ StopClose("c1")
    \/ WorkerOpenClose
    \/ \E w \in W : RelayRecvNotification(w, wsubject[w])
    \/ WorkerRelay
    \/ WorkerFetch

SpecWorkers == Init /\ [][NextWorkers]_vars

\* The publisher: preparers are registered, PublishAll is called with any
\* list, and every call a publishOne goroutine makes returns either way.
NextPublisher ==
    \/ \E p \in Preparers : PubRegisterHandler(p)
    \/ \E ps \in PreparerLists : PubRegisterHandlers(ps)
    \/ \E given \in PreparerLists : PublishAll(given)
    \/ \E i \in T : PrepareOk(i)
    \/ \E i \in T : PrepareFail(i)
    \/ \E i \in T : PrepareNil(i)
    \/ \E i \in T : ClientPublishOk(i)
    \/ \E i \in T : ClientPublishFail(i)
    \/ \E i \in T : ResultHandled(i)
    \/ \E i \in T : StatusOk(i)
    \/ \E i \in T : StatusError(i)
    \/ PublishAllReturn

SpecPublisher == Init /\ [][NextPublisher]_vars

\* Every call a publishOne goroutine makes returns, and the scheduler runs
\* every goroutine that can take a step.
AttemptsReturn ==
    /\ \A i \in T : WF_vars(PrepareOk(i) \/ PrepareFail(i) \/ PrepareNil(i)
                                \/ ClientPublishOk(i) \/ ClientPublishFail(i)
                                \/ ResultHandled(i) \/ StatusOk(i) \/ StatusError(i))
    /\ WF_vars(PublishAllReturn)

\* One PublishAll call, given up to MaxPreparers preparers, with nothing
\* registered; every call a publishOne goroutine makes returns either way.
NextPublishOnce ==
    \/ \E n \in 0..MaxPreparers :
          ppc = "idle" /\ pubResult = NoResult /\ PublishAll([i \in 1..n |-> "p1"])
    \/ \E i \in T : PrepareOk(i)
    \/ \E i \in T : PrepareFail(i)
    \/ \E i \in T : PrepareNil(i)
    \/ \E i \in T : ClientPublishOk(i)
    \/ \E i \in T : ClientPublishFail(i)
    \/ \E i \in T : ResultHandled(i)
    \/ \E i \in T : StatusOk(i)
    \/ \E i \in T : StatusError(i)
    \/ PublishAllReturn

SpecPublisherFair == Init /\ [][NextPublishOnce]_vars /\ AttemptsReturn

\* The registry: every caller may register either handler value for any
\* subject, singly or by map, before and after Start; the workers Start spawns
\* subscribe.
NextRegistry ==
    \/ Registration(Handlers)
    \/ \E c \in Callers : Start(c)
    \/ \E w \in W : SubscribeOk(w)
    \/ \E w \in W : SubscribeFail(w)

SpecRegistry == Init /\ [][NextRegistry]_vars

\* Notifications that name any subject: one caller registers and starts once,
\* every Subscribe call returns a stream, and a notification stream may yield
\* a notification for a subject other than the one subscribed to; the message
\* streams yield nothing.
NextAnySubject ==
    \/ \E s \in Subjects : Spawned = {} /\ RegisterHandler("c1", s, "h1")
    \/ (Spawned = {} /\ Start("c1"))
    \/ \E w \in W : SubscribeOk(w)
    \/ \E w \in W, s \in Subjects : RelayRecvNotification(w, s)
    \/ \E w \in W : RelayRecvEOF(w)
    \/ \E w \in W : RelayPush(w)
    \/ \E w \in W : DispatchTake(w)
    \/ \E w \in W : DispatchClosed(w)
    \/ \E w \in W : DispatchLoop(w)
    \/ \E w \in W : FetchOk(w)
    \/ \E w \in W : FetchFail(w)
    \/ \E w \in W : MsgEOF(w)

SpecAnySubject == Init /\ [][NextAnySubject]_vars

\* The steps a goroutine takes by itself, without waiting for a stream, the
\* client or a handler to return: the Go scheduler runs a goroutine that can
\* take such a step.  Nothing in the code makes Subscribe, Fetch, a Recv call
\* or a handler return.
Scheduling ==
    /\ \A w \in W : WF_vars(RelayPush(w) \/ RelayPushCancelled(w))
    /\ \A w \in W : WF_vars(DispatchCancelled(w) \/ DispatchTake(w)
                                \/ DispatchClosed(w) \/ DispatchLoop(w))
    /\ \A c \in Callers : WF_vars(StopJoin(c) \/ StopClose(c) \/ WaitReturn(c))

\* SpecWorkers under the scheduler's fairness.
SpecWorkersFair == SpecWorkers /\ Scheduling

\* No Stop: one caller registers, starts once and waits; every Subscribe and
\* Fetch call returns a stream, the streams yield their notifications and
\* messages and reach their end, and the handler returns nil.
NextDrain ==
    \/ \E s \in Subjects : Spawned = {} /\ RegisterHandler("c1", s, "h1")
    \/ (Spawned = {} /\ Start("c1"))
    \/ WaitBegin("c1")
    \/ WaitReturn("c1")
    \/ \E w \in W : SubscribeOk(w)
    \/ \E w \in W : RelayRecvNotification(w, wsubject[w])
    \/ \E w \in W : RelayRecvEOF(w)
    \/ \E w \in W : RelayPush(w)
    \/ \E w \in W : DispatchTake(w)
    \/ \E w \in W : DispatchClosed(w)
    \/ \E w \in W : DispatchLoop(w)
    \/ \E w \in W : FetchOk(w)
    \/ \E w \in W : MsgRecv(w)
    \/ \E w \in W : MsgEOF(w)
    \/ \E w \in W : HandleOk(w)

\* Every call into the client, a stream or a handler returns, and the
\* scheduler runs every goroutine that can take a step.
StreamsTerminate ==
    /\ \A w \in W : WF_vars(RelayRecvNotification(w, wsubject[w]) \/ RelayRecvEOF(w)
                                \/ RelayPush(w))
    /\ \A w \in W : WF_vars(SubscribeOk(w) \/ DispatchTake(w) \/ DispatchClosed(w)
                                \/ DispatchLoop(w) \/ FetchOk(w) \/ MsgRecv(w)
                                \/ MsgEOF(w) \/ HandleOk(w))
    /\ WF_vars(WaitReturn("c1"))

SpecDrain == Init /\ [][NextDrain]_vars /\ StreamsTerminate

\* One handler never returns: the scheduler runs every goroutine that can
\* take a step, every Fetch and every message-stream Recv call returns, and
\* every handler call returns except those of the worker of the first
\* subject.
OneHandlerStalls ==
    /\ \A w \in W : WF_vars(RelayPush(w))
    /\ \A w \in W : WF_vars(DispatchTake(w) \/ DispatchClosed(w) \/ DispatchLoop(w)
                                \/ FetchOk(w) \/ MsgRecv(w) \/ MsgEOF(w))
    /\ \A w \in W : WF_vars(wsubject[w] # SubjectOrder[1] /\ HandleOk(w))

\* The steps of SpecDrain, with one handler that may never return.
SpecStall == Init /\ [][NextDrain]_vars /\ OneHandlerStalls

\* SpecDrain with notification streams that may also break.
NextSourceEnds ==
    \/ NextDrain
    \/ \E w \in W : RelayRecvError(w)

SpecSourceEnds == Init /\ [][NextSourceEnds]_vars /\ StreamsTerminate

\* Registration against Start, step by step under s.mu: both callers register
\* at any time, with one entry or with a map; Start is called while no worker
\* exists and no other Start call is running; the workers subscribe.
NextStartLock ==
    \/ \E c \in Callers, m \in HandlerMaps(Handlers) : RegCall(c, m)
    \/ \E c \in Callers : RegLock(c)
    \/ \E c \in Callers : RegWriteOne(c)
    \/ \E c \in Callers : RegUnlock(c)
    \/ \E c \in Callers : Spawned = {} /\ muReaders = {} /\ StartRLock(c)
    \/ \E c \in Callers : StartRejected(c)
    \/ \E c \in Callers : StartEnter(c)
    \/ \E c \in Callers : StartSpawnOne(c)
    \/ \E c \in Callers : StartRUnlock(c)

SpecStartLock == Init /\ [][NextStartLock]_vars

\* Handlers replaced under running workers: one caller registers either
\* handler value for any subject at any time and starts once; every Subscribe
\* and Fetch call returns a stream, and the handler returns nil.
NextRebind ==
    \/ \E s \in Subjects, h \in Handlers : RegisterHandler("c1", s, h)
    \/ (Spawned = {} /\ Start("c1"))
    \/ \E w \in W : SubscribeOk(w)
    \/ \E w \in W : RelayRecvNotification(w, wsubject[w])
    \/ \E w \in W : RelayPush(w)
    \/ \E w \in W : DispatchTake(w)
    \/ \E w \in W : DispatchLoop(w)
    \/ \E w \in W : FetchOk(w)
    \/ \E w \in W : MsgRecv(w)
    \/ \E w \in W : MsgEOF(w)
    \/ \E w \in W : HandleOk(w)

SpecRebind == Init /\ [][NextRebind]_vars

\* Cancellation against the two loops: one caller registers, starts once and
\* stops once; every Subscribe and Fetch call returns a stream; the
\* notification streams yield notifications, end or break; the message streams
\* yield nothing.  The scheduler is fair to the goroutines' own steps.
NextCancel ==
    \/ \E s \in Subjects : Spawned = {} /\ RegisterHandler("c1", s, "h1")
    \/ (Spawned = {} /\ Start("c1"))
    \/ (stopsBegun = 0 /\ StopCancel("c1"))
    \/ StopJoin("c1")
    \/ StopClose("c1")
    \/ \E w \in W : SubscribeOk(w)
    \/ \E w \in W : RelayRecvNotification(w, wsubject[w])
    \/ \E w \in W : RelayRecvEOF(w)
    \/ \E w \in W : RelayRecvError(w)
    \/ \E w \in W : RelayPush(w)
    \/ \E w \in W : RelayPushCancelled(w)
    \/ \E w \in W : DispatchCancelled(w)
    \/ \E w \in W : DispatchTake(w)
    \/ \E w \in W : DispatchClosed(w)
    \/ \E w \in W : DispatchLoop(w)
    \/ \E w \in W : FetchOk(w)
    \/ \E w \in W : MsgEOF(w)

SpecCancelFair == Init /\ [][NextCancel]_vars /\ Scheduling

\* ------------------------------------------------------------------ claims

\* What belongs to one worker.
WorkerState(w) ==
    <<wsubject[w], whandler[w], pc[w], rpc[w], queue[w], closed[w], held[w], cur[w],
      subCalls[w], msgs[w], hErr[w], res[w]>>

\* C1: a Start call made while the registry is empty returns the error and
\* spawns nothing: no worker appears, the WaitGroup is not touched, and, since
\* only spawned workers call Subscribe, no Subscribe call follows from it.
C1_StartEmptyRejected ==
    /\ [](\A w \in W : pc[w] = "none" => subCalls[w] = <<>>)
    /\ [][\A c \in Callers :
            (Start(c) /\ Registered = {}) =>
                /\ startResult' = "err"
                /\ pc' = pc
                /\ wgCount' = wgCount
                /\ subCalls' = subCalls]_vars

\* A Start call on the empty registry has just failed and nothing was spawned.
C1_Witness == startResult = "err" /\ Registered = {} /\ Spawned = {}

\* C2: a Start call made with N >= 1 registered subjects returns success and
\* spawns exactly one worker for each registered subject and none for another
\* subject; every worker issues at most one Subscribe call, for its own subject.
C2_OneWorkerPerSubject ==
    /\ [](\A w \in W :
            /\ Len(subCalls[w]) <= 1
            /\ pc[w] \notin {"none", "spawned"} => subCalls[w] = <<wsubject[w]>>)
    /\ [][\A c \in Callers :
            (Start(c) /\ Registered # {}) =>
                LET new == {w \in W : pc[w] = "none" /\ pc'[w] # "none"}
                IN  /\ startResult' = "ok"
                    /\ \A s \in Registered :
                          Cardinality({w \in new : wsubject'[w] = s}) = 1
                    /\ \A w \in new : wsubject'[w] \in Registered
                    /\ wgCount' = wgCount + Cardinality(Registered)]_vars

\* Start was called with both subjects registered and each of the two workers
\* has issued its Subscribe call.
C2_Witness ==
    /\ startResult = "ok"
    /\ Registered = Subjects
    /\ {wsubject[w] : w \in W} = Subjects
    /\ \A w \in W : subCalls[w] = <<wsubject[w]>>

C4_CloseAtMostOnce == closeCount <= 1

C6_WaitFrame ==
    /\ [](stopsBegun = 0 => (~cancelled /\ closeCount = 0))
    /\ [][\A c \in Callers :
            (WaitBegin(c) \/ WaitReturn(c)) =>
                /\ cancelled' = cancelled
                /\ closeCount' = closeCount
                /\ \A w \in W : WorkerState(w)' = WorkerState(w)]_vars

\* A caller is blocked in Wait, Stop was never called, and a worker is in its
\* dispatch loop with its notification stream open.
C6_Witness ==
    /\ stopsBegun = 0
    /\ \E c \in Callers : cpc[c] = "waitWait"
    /\ \E w \in W : pc[w] = "select" /\ rpc[w] = "recv"

\* C7 (as claimed): no two handler invocations for the same subject are in
\* progress at the same time.
C7_NoOverlapPerSubject ==
    \A w, v \in W :
        (w # v /\ pc[w] = "handle" /\ pc[v] = "handle") => wsubject[w] # wsubject[v]

\* C8 (as claimed): after a Start call the workers the coordinator joins on are
\* no more than the subjects registered at the moment of that call.
C8_WorkersWithinRegistry ==
    [][\A c \in Callers :
         Start(c) => wgCount' <= Cardinality(Registered)]_vars

\* C9: the end of one worker's notification stream (end-of-stream, stream
\* error) or its failure to subscribe changes nothing of any other worker and
\* does not cancel; only Stop cancels; and a worker has exited only after
\* cancellation, after its own channel was closed and drained, or after its own
\* Subscribe call failed.
C9_FailureIsolated ==
    /\ [](\A w \in W :
            pc[w] = "exited" =>
                \/ cancelled
                \/ closed[w] /\ queue[w] = <<>>
                \/ rpc[w] = "none")
    /\ [][\A w \in W :
            (RelayRecvEOF(w) \/ RelayRecvError(w) \/ SubscribeFail(w)) =>
                /\ cancelled' = cancelled
                /\ \A v \in W \ {w} : WorkerState(v)' = WorkerState(v)]_vars
    /\ [][cancelled' # cancelled => \E c \in Callers : StopCancel(c)]_vars

\* One subject's worker is gone with its stream, nothing was cancelled, and the
\* worker of another subject is inside its handler.
C9_Witness ==
    \E w, v \in W :
        /\ wsubject[w] # wsubject[v]
        /\ pc[w] = "exited"
        /\ rpc[w] \in {"none", "done"}
        /\ ~cancelled
        /\ pc[v] = "handle"

\* C10: a handler call, whatever it returns, leaves the worker in the same
\* fetch cycle, pulling the next message; a message pulled after a handler
\* error is handed to the handler like any other; a cycle that reaches
\* end-of-stream returns success, handler errors or not; and after the cycle
\* has returned the dispatch loop goes on to the next notification.
C10_HandlerErrorContinues ==
    /\ [][\A w \in W :
            (pc[w] = "handle" /\ pc'[w] # "handle") =>
                /\ pc'[w] = "recv"
                /\ cur'[w] = cur[w]
                /\ msgs'[w] = msgs[w]
                /\ res'[w] = "none"]_vars
    /\ [][\A w \in W :
            (pc[w] = "recv" /\ hErr[w] /\ msgs'[w] # msgs[w]) => pc'[w] = "handle"]_vars
    /\ [][\A w \in W : MsgEOF(w) => res'[w] = "ok"]_vars
    /\ [][\A w \in W :
            (pc[w] = "returned" /\ pc'[w] # "returned") => pc'[w] = "select"]_vars

\* The handler failed on the first message of a batch and is now given the
\* second one, while the next notification waits in the channel.
C10_Witness ==
    \E w \in W : pc[w] = "handle" /\ msgs[w] = 2 /\ hErr[w] /\ queue[w] # <<>>

\* C11: within one fetch cycle the handler has been called once for each
\* message the message stream has yielded so far, in the order the stream
\* yielded them: the calls of the running cycle are the messages 1, 2, ...,
\* messageCount, in that order, and the worker is inside the handler only with
\* the message pulled last.
C11_HandlerOncePerMessageInOrder ==
    \A w \in W :
        /\ hlog[w] = [i \in 1..msgs[w] |-> i]
        /\ pc[w] = "handle" => msgs[w] >= 1 /\ hlog[w][Len(hlog[w])] = msgs[w]

\* A cycle has ended at end-of-stream after its stream yielded two messages.
C11_Witness ==
    \E w \in W : pc[w] = "returned" /\ res[w] = "ok" /\ hlog[w] = <<1, 2>>

C13_StopUnblocksFetch ==
    /\ \A w \in W : (cancelled /\ pc[w] = "recv") ~> (pc[w] = "exited")
    /\ \A c \in Callers :
          (cpc[c] = "stopWait" /\ Live # {} /\ \A w \in Live : pc[w] = "recv")
              ~> (cpc[c] = "idle")

\* C14: Start called with a non-empty registry returns success; what Start
\* returned changes only when Start is called again; and no failure inside a
\* worker (Subscribe, the notification stream, Fetch, the message stream, a
\* handler) changes what Start returned, moves a caller inside Stop or Wait,
\* cancels, or closes the client.  Stop and Wait return no value.
C14_FailuresNotReported ==
    /\ [][\A c \in Callers : (Start(c) /\ Registered # {}) => startResult' = "ok"]_vars
    /\ [][startResult' # startResult => \E c \in Callers : Start(c)]_vars
    /\ [][\A w \in W :
            (SubscribeFail(w) \/ RelayRecvError(w) \/ FetchFail(w) \/ MsgError(w)
                \/ HandleError(w)) =>
                UNCHANGED <<startResult, cpc, cancelled, closeCount, stopsReturned>>]_vars

\* Start returned success; the Subscribe call of one worker failed afterwards
\* and a fetch cycle of another worker ended with an error.
C14_Witness ==
    /\ startResult = "ok"
    /\ \E w, v \in W :
          /\ pc[w] = "exited" /\ rpc[w] = "none"
          /\ pc[v] = "returned" /\ res[v] = "err"

\* C15: Start returns without waiting for any Subscribe call: in the step in
\* which Start returns success the caller is free again and every worker it
\* started has not yet had its Subscribe call return; no worker has to take a
\* step for Start to return.
C15_StartDoesNotWaitForSubscribe ==
    [][\A c \in Callers :
         (Start(c) /\ Registered # {}) =>
             /\ startResult' = "ok"
             /\ cpc'[c] = "idle"
             /\ \A w \in W :
                   (pc[w] = "none" /\ pc'[w] # "none") =>
                       pc'[w] = "spawned" /\ rpc'[w] = "none" /\ subCalls'[w] = <<>>
             /\ \A w \in W : pc[w] # "none" => WorkerState(w)' = WorkerState(w)]_vars

\* Start has returned success for two subjects, a caller is already waiting
\* in Wait, and neither Subscribe call has returned.
C15_Witness ==
    /\ startResult = "ok"
    /\ Cardinality(Spawned) = 2
    /\ \A w \in Spawned : pc[w] = "spawned" /\ subCalls[w] = <<>>
    /\ \E c \in Callers : cpc[c] = "waitWait"

\* C16: registering a handler starts nothing: a RegisterHandler or
\* RegisterHandlers call leaves every worker, existing or not, and the wait
\* group as they are; a worker comes into being only in a Start call; and a
\* worker issues Subscribe for its own subject only.  So a subject registered
\* after Start has no worker, no Subscribe call and no handler call until
\* Start is called again.
C16_LateRegistrationStartsNothing ==
    /\ [][\A c \in Callers, s \in Subjects, h \in Handlers :
            RegisterHandler(c, s, h) =>
                /\ wgCount' = wgCount
                /\ \A w \in W : WorkerState(w)' = WorkerState(w)]_vars
    /\ [][\A c \in Callers, m \in HandlerMaps(Handlers) :
            RegisterHandlers(c, m) =>
                /\ wgCount' = wgCount
                /\ \A w \in W : WorkerState(w)' = WorkerState(w)]_vars
    /\ [][\A w \in W :
            (pc[w] = "none" /\ pc'[w] # "none") => \E c \in Callers : Start(c)]_vars
    /\ [](\A w \in W : \A i \in 1..Len(subCalls[w]) : subCalls[w][i] = wsubject[w])

\* Start returned success and its worker has subscribed; another subject is
\* registered by now and has no worker.
C16_Witness ==
    /\ startResult = "ok"
    /\ \E w \in Spawned : pc[w] = "select" /\ subCalls[w] = <<wsubject[w]>>
    /\ \E s \in Registered : \A w \in W : wsubject[w] # s

\* C17: a RegisterHandler call binds its subject to its handler and leaves
\* the binding of every other subject as it was; a RegisterHandlers call
\* binds every subject of its map to the map's handler for it and leaves the
\* other subjects as they were; nothing else changes the registry; so each
\* subject has at most one handler, the one of the last call that named it.
C17_LastRegistrationWins ==
    /\ [][\A c \in Callers, s \in Subjects, h \in Handlers :
            RegisterHandler(c, s, h) =>
                /\ handlers'[s] = h
                /\ \A t \in Subjects \ {s} : handlers'[t] = handlers[t]]_vars
    /\ [][\A c \in Callers, m \in HandlerMaps(Handlers) :
            RegisterHandlers(c, m) =>
                /\ \A s \in DOMAIN m : handlers'[s] = m[s]
                /\ \A t \in Subjects \ DOMAIN m : handlers'[t] = handlers[t]]_vars
    /\ [][handlers' # handlers => Registration(Handlers)]_vars
    /\ [](\A s \in Subjects : handlers[s] \in Handlers \cup {NoHandler})

\* Subject "a" had handler h1 when Start ran (its worker holds h1) and has
\* been registered again since: the registry now binds it to h2, and "b",
\* which the second registration did not name, still has h1.
C17_Witness ==
    /\ handlers["a"] = "h2"
    /\ handlers["b"] = "h1"
    /\ \E w, v \in W :
          /\ wsubject[w] = "a" /\ whandler[w] = "h1"
          /\ wsubject[v] = "b" /\ whandler[v] = "h1"

FailedTasks == {i \in 1..Len(pubList) : tpc[i] = "failed"}

\* C19: PublishAll given a non-empty list publishes that list; no entry has
\* its Prepare called more than once; when PublishAll has returned, Prepare
\* was called exactly once on every entry, every publishOne ran to its end
\* whether others failed or not, the result is an error exactly when some
\* publishOne failed, and the error's count is the number that failed.
C19_PublishAllRunsEachOnce ==
    /\ Len(pubGiven) > 0 => pubList = pubGiven
    /\ \A i \in T : prepCalls[i] <= 1
    /\ \A i \in T : i > Len(pubList) => prepCalls[i] = 0 /\ tpc[i] = "none"
    /\ (ppc = "idle" /\ pubResult.kind \in {"ok", "err"}) =>
          /\ \A i \in 1..Len(pubList) :
                prepCalls[i] = 1 /\ tpc[i] \in {"done", "failed"}
          /\ pubResult.kind = "err" <=> FailedTasks # {}
          /\ pubResult.failed = Cardinality(FailedTasks)

\* PublishAll was given two preparers and returned: both failed, one of them
\* at the server's status after its publish went through, and the error
\* counts two.
C19_Witness ==
    /\ ppc = "idle"
    /\ Len(pubGiven) = 2
    /\ pubResult = [kind |-> "err", failed |-> 2]
    /\ clientCalls = 1
    /\ prepCalls = [i \in T |-> IF i <= 2 THEN 1 ELSE 0]

\* C20: PublishAll called with an empty list takes the registered preparers
\* as they are at the call: with some registered it starts one publishOne per
\* registered preparer, in their order; with none registered it returns the
\* error at once, no goroutine is started and no client Publish call is made.
C20_EmptyListUsesRegistered ==
    /\ [][(PublishAll(<<>>) /\ preparers # <<>>) =>
            /\ pubList' = preparers
            /\ ppc' = "wait"
            /\ \A i \in T : tpc'[i] = (IF i <= Len(preparers) THEN "prepare" ELSE "none")]_vars
    /\ [][(PublishAll(<<>>) /\ preparers = <<>>) =>
            /\ pubResult' = [kind |-> "empty", failed |-> 0]
            /\ ppc' = "idle"]_vars
    /\ [](pubResult.kind = "empty" =>
            /\ clientCalls = 0
            /\ \A i \in T : tpc[i] = "none" /\ prepCalls[i] = 0)

\* PublishAll was called with an empty list while p1 and p2 were registered;
\* it published both and returned success.
C20_Witness ==
    /\ pubGiven = <<>>
    /\ preparers = <<"p1", "p2">>
    /\ pubList = preparers
    /\ ppc = "idle"
    /\ pubResult.kind = "ok"
    /\ clientCalls = 2

\* The publishOne goroutines whose p.client.Publish call has been made.
ClientCalled ==
    {i \in T : \/ tpc[i] \in {"result", "status", "done"}
               \/ perr[i] \in {"publish failed", "server error"}}

C22_OneFetchPerNotification ==
    /\ [](\A w \in W :
            /\ pc[w] \in {"none", "spawned", "select", "exited", "fetch"} =>
                  fetchCalls[w] = <<>>
            /\ pc[w] \in {"recv", "handle", "returned"} => Len(fetchCalls[w]) = 1)
    /\ [][\A w \in W :
            (held[w] # NoNotif /\ held'[w] # held[w]) =>
                \/ queue'[w] = Append(queue[w], held[w])
                \/ cancelled]_vars
    /\ [][\A w \in W :
            queue'[w] # queue[w] =>
                \/ queue'[w] = Append(queue[w], held[w])
                \/ /\ queue[w] = <<cur'[w]>> \o queue'[w]
                   /\ pc[w] = "select" /\ pc'[w] = "fetch"
                   /\ cur'[w].sequence > lastSeq[w]]_vars
    /\ [](\A w \in W :
            (pc[w] = "exited" /\ ~cancelled /\ rpc[w] # "none") =>
                queue[w] = <<>> /\ held[w] = NoNotif /\ rpc[w] = "done")

\* Nothing was cancelled; the only worker that subscribed pulled both
\* notifications, ran a fetch cycle for each and has exited.
C22_Witness ==
    \E w \in W :
        /\ pc[w] = "exited"
        /\ ~cancelled
        /\ pulled = 2
        /\ lastSeq[w] = 2
        /\ \A v \in W \ {w} : rpc[v] = "none"

\* C23: every Fetch call of a worker carries the config of that worker's
\* Subscribe call: the worker's subject, the durable name and the batch size.
C23_FetchConfigIsSubscribeConfig ==
    \A w \in W : \A k \in 1..Len(fetchCalls[w]) : fetchCalls[w][k] = SubscribeConfig(w)

\* C24: a failed Fetch call and a message stream error other than
\* end-of-stream end the fetch cycle with an error, at once and without a
\* handler call; after a cycle has returned no handler call is made for it,
\* and the worker, still counted by the wait group, goes back to its select
\* for the next notification.
C24_StreamErrorEndsCycleOnly ==
    /\ [][\A w \in W :
            (FetchFail(w) \/ MsgError(w)) =>
                /\ pc'[w] = "returned"
                /\ res'[w] = "err"
                /\ hlog'[w] = hlog[w]
                /\ wgCount' = wgCount]_vars
    /\ [](\A w \in W : res[w] = "err" => pc[w] = "returned")
    /\ [][\A w \in W :
            (pc[w] = "returned" /\ res[w] = "err") =>
                \/ pc'[w] = "returned" /\ hlog'[w] = hlog[w]
                \/ pc'[w] = "select" /\ hlog'[w] = <<>> /\ wgCount' = wgCount]_vars

\* A message stream broke after its first message; the cycle has returned
\* the error, nothing is cancelled, and the next notification waits in the
\* channel of the worker.
C24_Witness ==
    \E w \in W :
        /\ pc[w] = "returned" /\ res[w] = "err"
        /\ hlog[w] = <<1>>
        /\ ~cancelled
        /\ queue[w] # <<>>

C26_FirstPullErrorEndsWorker ==
    /\ [][\A w \in W :
            (RelayRecvError(w) /\ lastSeq[w] = 0 /\ queue[w] = <<>> /\ ~cancelled) =>
                rpc'[w] = "done" /\ closed'[w] /\ queue'[w] = <<>> /\ pc'[w] = "select"]_vars
    /\ [][\A w \in W :
            (rpc[w] = "done" /\ lastSeq[w] = 0 /\ queue[w] = <<>>) =>
                /\ rpc'[w] = "done" /\ lastSeq'[w] = 0 /\ queue'[w] = <<>>
                /\ fetchCalls'[w] = <<>>
                /\ pc'[w] \in {"select", "exited"}]_vars
    /\ \A w \in W :
          (rpc[w] = "done" /\ lastSeq[w] = 0 /\ queue[w] = <<>> /\ ~cancelled)
              ~> (pc[w] = "exited")

\* Nothing was pulled or cancelled, and a worker whose receiver goroutine has
\* returned has exited while the worker of the other subject is still waiting
\* for notifications.
C26_Witness ==
    /\ ~cancelled
    /\ pulled = 0
    /\ \E w, v \in W :
          /\ pc[w] = "exited" /\ rpc[w] = "done" /\ closed[w]
          /\ pc[v] = "select" /\ rpc[v] = "recv"

C27_NoCycleAfterCancel ==
    [][\A w \in W :
        (cancelled /\ pc[w] = "select") => pc'[w] # "fetch"]_vars

C30_RelayDoneWhenStopReturns ==
    [][\A c \in Callers :
        StopClose(c) => \A w \in joinSet[c] : rpc[w] \in {"none", "done"}]_vars

\* C31: when the handler of one subject's worker never returns, every other
\* worker still takes each notification its receiver goroutine pulled and
\* completes that notification's cycle, and each of its handler calls is made
\* and returns, whatever the stalled worker does.
C31_StallIsPerSubject ==
    /\ \A v \in W : \A n \in 1..MaxNotif :
          (wsubject[v] # SubjectOrder[1] /\ held[v].sequence = n)
              ~> (lastSeq[v] = n /\ pc[v] = "returned")
    /\ \A v \in W :
          (wsubject[v] # SubjectOrder[1] /\ pc[v] = "handle") ~> (pc[v] = "recv")
    /\ [](\A v \in W :
            (pc[v] = "select" /\ queue[v] # <<>>) => ENABLED DispatchTake(v))

\* The first subject's worker is inside its handler, and the other worker has
\* since completed the cycle of a later notification, handler call included.
C31_Witness ==
    \E w, v \in W :
        /\ wsubject[w] = SubjectOrder[1] /\ pc[w] = "handle" /\ lastSeq[w] = 1
        /\ wsubject[v] # SubjectOrder[1] /\ pc[v] = "returned" /\ lastSeq[v] = 2
        /\ hlog[v] # <<>>

C33_NoClientCallAfterClose ==
    [][\A w \in W :
        (SubscribeOk(w) \/ SubscribeFail(w) \/ FetchOk(w) \/ FetchFail(w)) =>
            closeCount = 0]_vars

\* C34: a registration call and the spawn phase of Start never overlap: while
\* a Start call holds the read lock no caller writes s.handlers, so the
\* registry stays what it was when Start got the lock, and a registration
\* call writes all its entries with no Start call inside its spawn phase.
\* When Start returns nil it has started exactly one worker for every
\* subject that registry had, with the handler it had.
C34_SpawnSetIsOneSnapshot ==
    /\ [](muWriter # "none" => muReaders = {})
    /\ [](\A c \in Callers : cpc[c] = "regWrite" => muWriter = c)
    /\ [](\A c \in Callers :
            cpc[c] \in {"startLocked", "startSpawn"} =>
                c \in muReaders /\ handlers = regAtLock[c])
    /\ [][handlers' # handlers => muReaders = {} /\ muWriter # "none"]_vars
    /\ [][\A c \in Callers :
            StartRUnlock(c) =>
                /\ startSeen[c] = {s \in Subjects : regAtLock[c][s] # NoHandler}
                /\ Cardinality(Spawned) = Cardinality(startSeen[c])
                /\ \A s \in startSeen[c] :
                      \E w \in Spawned : /\ wsubject[w] = s
                                         /\ whandler[w] = regAtLock[c][s]]_vars

\* A Start call is half-way through its spawn phase while another caller's
\* RegisterHandlers call, with an entry for every subject, waits for the lock.
C34_Witness ==
    \E c, d \in Callers :
        /\ cpc[c] = "startSpawn" /\ startSeen[c] # {} /\ startSeen[c] # Registered
        /\ cpc[d] = "regWait" /\ DOMAIN regTodo[d] = Subjects
        /\ \E s \in Subjects : regTodo[d][s] # handlers[s]

\* C35: a worker calls the handler it was started with, which is the one its
\* subject had in the registry when Start ran; the worker keeps that handler
\* whatever is registered for its subject afterwards.
C35_HandlerBoundAtStart ==
    /\ [](\A w \in W : pc[w] = "handle" => hcalled[w] = whandler[w])
    /\ [][\A w \in W : hcalled'[w] # hcalled[w] => hcalled'[w] = whandler[w]]_vars
    /\ [][\A w \in W :
            IF pc[w] = "none"
            THEN pc'[w] # "none" => whandler'[w] = handlers[wsubject'[w]]
            ELSE whandler'[w] = whandler[w] /\ wsubject'[w] = wsubject[w]]_vars

\* A worker is inside the handler it was started with while the registry
\* holds another handler for its subject.
C35_Witness ==
    \E w \in W :
        /\ pc[w] = "handle" /\ hcalled[w] = "h1"
        /\ handlers[wsubject[w]] = "h2"

\* C36: cancellation does not end a running processNotification call.  With
\* the context cancelled, a message the stream yields is still counted and
\* given to the handler; after the handler the loop calls Recv again; the
\* call returns only when Fetch fails, at io.EOF or at a stream error, and the
\* goroutine does not exit from inside it.
C36_CycleRunsOnAfterCancel ==
    /\ [](\A w \in W :
            (cancelled /\ pc[w] = "recv" /\ yielded < MaxMsgs) => ENABLED MsgRecv(w))
    /\ [](\A w \in W :
            pc[w] \in {"fetch", "recv", "handle"} => ~ ENABLED DispatchCancelled(w))
    /\ [][\A w \in W :
            (cancelled /\ pc[w] = "recv" /\ msgs'[w] # msgs[w]) =>
                /\ pc'[w] = "handle"
                /\ hlog'[w] = Append(hlog[w], msgs[w] + 1)]_vars
    /\ [][\A w \in W :
            (cancelled /\ pc[w] = "handle") => pc'[w] \in {"handle", "recv"}]_vars
    /\ [][\A w \in W :
            (cancelled /\ pc[w] \in {"fetch", "recv"}) =>
                pc'[w] \in {pc[w], "recv", "handle", "returned"}]_vars

\* Stop has cancelled the context and waits; a worker is inside the handler
\* with the last message of a cycle that yielded MaxMsgs messages.
C36_Witness ==
    \E w \in W : /\ cancelled /\ cpc["c1"] = "stopWait"
                 /\ pc[w] = "handle" /\ Len(hlog[w]) = MaxMsgs

\* C37: a worker's notification channel is closed when, and only when, its
\* receiver goroutine returns, at io.EOF, at a stream error or at cancellation,
\* in that goroutine's own step; the goroutine returns once, so the channel is
\* closed once and stays closed; a closed channel takes no notification: it only
\* loses its head to the dispatch loop.
C37_ClosedOnceByRelay ==
    /\ [](\A w \in W : closed[w] <=> rpc[w] = "done")
    /\ [](\A w \in W : closed[w] => held[w] = NoNotif /\ ~ ENABLED RelayPush(w))
    /\ [][\A w \in W :
            (RelayRecvEOF(w) \/ RelayRecvError(w) \/ RelayPushCancelled(w)) =>
                ~ closed[w] /\ closed'[w]]_vars
    /\ [][\A w \in W :
            closed'[w] # closed[w] =>
                /\ ~ closed[w] /\ rpc[w] \in {"recv", "push"} /\ rpc'[w] = "done"
                /\ pc'[w] = pc[w] /\ queue'[w] = queue[w]]_vars
    /\ [][\A w \in W : rpc[w] = "done" => rpc'[w] = "done"]_vars
    /\ [][\A w \in W :
            closed[w] => queue'[w] = queue[w] \/ queue'[w] = Tail(queue[w])]_vars

\* After Stop both channels are closed: one worker's receiver goroutine gave
\* up its send on cancellation with a notification still in the channel, the
\* other's stream had ended before.
C37_Witness ==
    \E w, v \in W :
        /\ cancelled /\ closed[w] /\ closed[v] /\ w # v
        /\ Len(queue[w]) = QueueCap /\ pulled = QueueCap + 1 /\ lastSeq[w] = 0
        /\ lastSeq[v] = 0 /\ pc[v] = "exited"

\* The publishOne goroutines of the running PublishAll call that have not
\* finished.
RunningTasks == {i \in 1..Len(pubList) : tpc[i] \notin {"none", "done", "failed"}}

\* C38: errChan holds one error per failed goroutine and has room for one per
\* goroutine, so while a goroutine is still running the channel is not full
\* and a failing goroutine can always send its error; once every goroutine has
\* finished PublishAll can return; and when every call the goroutines make
\* returns, PublishAll does return, with as many errors as goroutines failed.
C38_PublishAllReturns ==
    /\ [](ppc = "wait" => Len(errChan) = Cardinality(FailedTasks))
    /\ [](RunningTasks # {} => Len(errChan) < Len(pubList))
    /\ [](\A i \in T :
            /\ (tpc[i] = "prepare") => (ENABLED PrepareFail(i) /\ ENABLED PrepareNil(i))
            /\ (tpc[i] = "publish") => ENABLED ClientPublishFail(i)
            /\ (tpc[i] = "status") => ENABLED StatusError(i))
    /\ []((ppc = "wait" /\ RunningTasks = {}) => ENABLED PublishAllReturn)
    /\ (ppc = "wait") ~> (ppc = "idle" /\ pubResult.failed = Cardinality(FailedTasks))

\* Every goroutine of a PublishAll call with MaxPreparers preparers has failed
\* and sent its error, and PublishAll has returned them all.
C38_Witness ==
    /\ ppc = "idle"
    /\ Len(pubList) = MaxPreparers
    /\ \A i \in 1..Len(pubList) : tpc[i] = "failed"
    /\ Len(errChan) = MaxPreparers
    /\ pubResult = [kind |-> "err", failed |-> MaxPreparers]

====
